---- MODULE Spec2Model ----
(***************************************************************************)
(* A model of utils/llm_probe.py: the dotenv loader, the tolerant header   *)
(* parser, the body summarizer and the control flow of main.               *)
(*                                                                         *)
(* Text is modelled as a sequence of atoms.  An atom is a one-character    *)
(* string for every character the code tests for (separators, quotes,      *)
(* braces, whitespace) and may be a longer string standing for a run of    *)
(* ordinary characters ("API_KEY", "Bearer").                              *)
(***************************************************************************)
EXTENDS Integers, Sequences, FiniteSets, TLC

VARIABLES
    pc,             \* position of the running function
    env,            \* os.environ: a function from the set names to values
    env0,           \* os.environ as it was when the process started
    lines,          \* load_env_file: the lines of the env file
    lineno,         \* load_env_file: how many of them the loop has taken
    raised,         \* name of the exception that ended the run, "" if none
    raw,            \* parse_headers: the raw header specification
    header,         \* args.header: the repeated --header values
    data,           \* parse_headers: outcome (candidate strategy, mapping / error)
    extra_headers,  \* main: the merged extra headers
    text,           \* summarize_body: the argument
    excerpt,        \* summarize_body: the returned value
    args,           \* main: parsed command line
    cfg,            \* main: base_url, model, api_key as resolved
    headers,        \* main: the header mapping handed to httpx.Client
    out,            \* main: what was printed and requested, in order
    ret             \* main: return value, -1 while running

vars == <<pc, env, env0, lines, lineno, raised, raw, header, data, extra_headers,
          text, excerpt, args, cfg, headers, out, ret>>

-----------------------------------------------------------------------------
(* Python str operations on sequences of atoms *)

None == <<"<None>">>

Truthy(s) == s # None /\ s # <<>>

\* s1 or s2
Or(s1, s2) == IF Truthy(s1) THEN s1 ELSE s2

\* the characters str.strip() removes
Whitespace == {" ", "\t", "\n", "\r", "\f"}

RECURSIVE LStripSet(_, _)
LStripSet(s, cs) ==
    IF s # <<>> /\ Head(s) \in cs THEN LStripSet(Tail(s), cs) ELSE s

RECURSIVE RStripSet(_, _)
RStripSet(s, cs) ==
    IF s # <<>> /\ s[Len(s)] \in cs
    THEN RStripSet(SubSeq(s, 1, Len(s) - 1), cs) ELSE s

\* s.strip()
Strip(s) == RStripSet(LStripSet(s, Whitespace), Whitespace)

\* s.strip(c)
StripChar(s, c) == RStripSet(LStripSet(s, {c}), {c})

\* c in s
Contains(s, c) == \E i \in 1..Len(s) : s[i] = c

\* s.index(c), 1-based; only used when c in s
IndexOf(s, c) == CHOOSE i \in 1..Len(s) : s[i] = c /\ \A j \in 1..(i - 1) : s[j] # c

\* s.split(c, 1) when c in s
SplitFirst(s, c) ==
    LET i == IndexOf(s, c)
    IN  <<SubSeq(s, 1, i - 1), SubSeq(s, i + 1, Len(s))>>

\* s.split(c)
RECURSIVE Split(_, _)
Split(s, c) ==
    IF ~Contains(s, c) THEN <<s>>
    ELSE <<SplitFirst(s, c)[1]>> \o Split(SplitFirst(s, c)[2], c)

\* s.replace(a, b) for single characters
Replace(s, a, b) == [i \in 1..Len(s) |-> IF s[i] = a THEN b ELSE s[i]]

\* a dict as a function; d[k] = v
Put(d, k, v) == [x \in DOMAIN d \cup {k} |-> IF x = k THEN v ELSE d[x]]

\* d.setdefault(k, v)
SetDefault(d, k, v) == IF k \in DOMAIN d THEN d ELSE Put(d, k, v)

EmptyDict == [x \in {} |-> <<>>]

\* os.getenv(k, "")
GetEnv(e, k) == IF k \in DOMAIN e THEN e[k] ELSE <<>>

-----------------------------------------------------------------------------
(* load_env_file *)

\* the loop's `continue` test
SkipLine(l) == l = <<>> \/ Head(l) = "#" \/ ~Contains(l, "=")

LineKey(l) == Strip(SplitFirst(l, "=")[1])

LineValue(l) == StripChar(Strip(SplitFirst(l, "=")[2]), "\"")

\* os.environ refuses an empty name (OSError, EINVAL) when it has to write it
PutEnvFails(e, k) == k = <<>> /\ k \notin DOMAIN e

\* the loop body had it assigned os.environ[key] = value
ProcessLineAssign(e, line) ==
    LET l == Strip(line)
    IN  IF SkipLine(l) THEN e ELSE Put(e, LineKey(l), LineValue(l))

\* one iteration of the loop over the file's lines
ProcessLine(e, line) ==
    LET l == Strip(line)
    IN  IF SkipLine(l) THEN e ELSE SetDefault(e, LineKey(l), LineValue(l))

LineRaises(e, line) ==
    LET l == Strip(line)
    IN  ~SkipLine(l) /\ PutEnvFails(e, LineKey(l))

\* load_env_file as a whole: the environment it leaves and whether it raised
RECURSIVE LoadEnvFile(_, _)
LoadEnvFile(e, ls) ==
    IF ls = <<>> THEN [env |-> e, raised |-> ""]
    ELSE IF LineRaises(e, Head(ls)) THEN [env |-> e, raised |-> "OSError"]
    ELSE LoadEnvFile(ProcessLine(e, Head(ls)), Tail(ls))

-----------------------------------------------------------------------------
(* Inputs of the loader *)

API_KEY == <<"API_KEY">>
MODEL_BASE_URL == <<"MODEL_BASE_URL">>
MODEL_NAME == <<"MODEL_NAME">>
MODEL_DEFAULT_HEADERS == <<"MODEL_DEFAULT_HEADERS">>

MaxFileLines == 2

EnvFileLines ==
    { <<"API_KEY", "=", "secret">>,
      <<" ", "API_KEY", " ", "=", " ", "\"", "secret", "\"", " ">>,
      <<"API_KEY", "=">>,
      <<"API_KEY", "=", "a", "=", "b">>,
      <<"#", "API_KEY", "=", "no">>,
      <<"API_KEY">>,
      <<"\t">>,
      <<"=", "secret">>,
      <<"MODEL_NAME", "=", "qwen">>,
      <<"MODEL_NAME", "=", "\"", "\"">> }

EnvFiles == UNION { [1..n -> EnvFileLines] : n \in 0..MaxFileLines }

\* environments the process can start in
StartEnvs ==
    { [k \in ks |-> IF k = API_KEY THEN v ELSE <<"m0">>] :
        ks \in SUBSET {API_KEY, MODEL_NAME}, v \in {<<>>, <<"live">>} }

\* the variables of the functions a specification does not run
NoLoader == env0 = EmptyDict /\ env = EmptyDict /\ lines = <<>> /\ lineno = 0

NoParser == raw = None /\ header = <<>> /\ data = <<>> /\ extra_headers = EmptyDict

NoSummary == text = <<>> /\ excerpt = <<>>

NoMain == args = <<>> /\ cfg = <<>> /\ headers = EmptyDict /\ out = <<>> /\ ret = -1

-----------------------------------------------------------------------------
(* load_env_file, one loop iteration per step *)

EnvInit ==
    /\ NoParser /\ NoSummary /\ NoMain
    /\ raised = ""
    /\ env0 \in StartEnvs
    /\ env = env0
    /\ lines \in EnvFiles \cup {None}
    /\ lineno = 0
    /\ pc = "load"

\* if not p.exists(): return
EnvNoFile ==
    /\ pc = "load"
    /\ lines = None
    /\ pc' = "done"
    /\ UNCHANGED <<env, env0, lines, lineno, raised, raw, header, data,
                   extra_headers, text, excerpt, args, cfg, headers, out, ret>>

EnvLine ==
    /\ pc = "load"
    /\ lines # None
    /\ lineno < Len(lines)
    /\ ~LineRaises(env, lines[lineno + 1])
    /\ env' = ProcessLine(env, lines[lineno + 1])
    /\ lineno' = lineno + 1
    /\ UNCHANGED <<pc, env0, lines, raised, raw, header, data,
                   extra_headers, text, excerpt, args, cfg, headers, out, ret>>

EnvLineRaises ==
    /\ pc = "load"
    /\ lines # None
    /\ lineno < Len(lines)
    /\ LineRaises(env, lines[lineno + 1])
    /\ raised' = "OSError"
    /\ pc' = "done"
    /\ UNCHANGED <<env, env0, lines, lineno, raw, header, data,
                   extra_headers, text, excerpt, args, cfg, headers, out, ret>>

EnvReturn ==
    /\ pc = "load"
    /\ lines # None
    /\ lineno = Len(lines)
    /\ pc' = "done"
    /\ UNCHANGED <<env, env0, lines, lineno, raised, raw, header, data,
                   extra_headers, text, excerpt, args, cfg, headers, out, ret>>

EnvNext == EnvNoFile \/ EnvLine \/ EnvLineRaises \/ EnvReturn

SpecEnv == EnvInit /\ [][EnvNext]_vars

\* C4: load_env_file never changes or removes a variable that is already set,
\* the empty string included: every variable the process started with keeps
\* its value, and a line of the file only ever adds a name that was unset
\* when the line was processed.
C4_ExistingEnvWins ==
    /\ [](\A k \in DOMAIN env0 : k \in DOMAIN env /\ env[k] = env0[k])
    /\ [][\A k \in DOMAIN env : k \in DOMAIN env' /\ env'[k] = env[k]]_vars

\* API_KEY=live in the environment, API_KEY=secret taken from the file
C4_Witness ==
    /\ pc = "done" /\ raised = ""
    /\ API_KEY \in DOMAIN env0 /\ env0[API_KEY] = <<"live">>
    /\ \E i \in 1..lineno : lines[i] = <<"API_KEY", "=", "secret">>
    /\ env[API_KEY] = <<"live">>

-----------------------------------------------------------------------------
(* summarize_body *)

\* the default of the limit parameter
SummaryLimit == 400

Ellipsis == <<".", ".", ".">>

\* the test was written len(text) >= limit
SummarizeBodyOffByOne(t, limit) ==
    LET s == Strip(Replace(Or(t, <<>>), "\n", " "))
    IN  IF Len(s) >= limit THEN SubSeq(s, 1, limit) \o Ellipsis ELSE s

summarize_body(t, limit) ==
    LET s == Strip(Replace(Or(t, <<>>), "\n", " "))
    IN  IF Len(s) > limit THEN SubSeq(s, 1, limit) \o Ellipsis ELSE s

\* how far past the limit the bodies tried go
MaxOver == 2

Run(c, n) == [i \in 1..n |-> c]

BodyLengths == 0..2 \cup (SummaryLimit - 3)..(SummaryLimit + MaxOver)

BodyEdges == { <<>>, <<" ">>, <<"\n">>, <<"\t", "\n">> }

BodyMiddles == { <<>>, <<"\n">>, <<"\n", "\n">>, <<" ", "\t">>, <<".">> }

\* response bodies: r.text
Bodies ==
    { pre \o Run("x", n) \o mid \o Run("y", m) \o post :
        pre \in BodyEdges, n \in BodyLengths, mid \in BodyMiddles,
        m \in 0..1, post \in BodyEdges }
    \cup {None}

BodyInit ==
    /\ NoLoader /\ NoParser /\ NoMain
    /\ raised = ""
    /\ text \in Bodies
    /\ excerpt = <<>>
    /\ pc = "call"

SummarizeBody ==
    /\ pc = "call"
    /\ excerpt' = summarize_body(text, SummaryLimit)
    /\ pc' = "done"
    /\ UNCHANGED <<env, env0, lines, lineno, raised, raw, header, data,
                   extra_headers, text, args, cfg, headers, out, ret>>

BodyNext == SummarizeBody

SpecBody == BodyInit /\ [][BodyNext]_vars

\* the body between its first and its last non-whitespace character
Core(t) ==
    LET ix == { i \in 1..Len(t) : t[i] \notin Whitespace }
    IN  IF t = None \/ ix = {} THEN <<>>
        ELSE SubSeq(t, CHOOSE i \in ix : \A j \in ix : i <= j,
                       CHOOSE i \in ix : \A j \in ix : i >= j)

\* every run of whitespace replaced by one space
RECURSIVE Collapse(_)
Collapse(t) ==
    IF t = <<>> THEN <<>>
    ELSE IF Head(t) \in Whitespace
    THEN <<" ">> \o Collapse(LStripSet(t, Whitespace))
    ELSE <<Head(t)>> \o Collapse(Tail(t))

Truncated(t, limit) ==
    IF Len(t) > limit THEN SubSeq(t, 1, limit) \o Ellipsis ELSE t

\* C10 as stated: the excerpt is the body with its whitespace collapsed (runs
\* of whitespace become one space, the ends trimmed), cut to 400 characters,
\* with the ellipsis appended exactly when it was cut.
C10_CollapsedAndTruncated ==
    pc = "done" => excerpt = Truncated(Collapse(Core(text)), SummaryLimit)

\* C10 amended: the excerpt is the body without its leading and trailing
\* whitespace and with every newline replaced by a space, other whitespace
\* and runs of whitespace kept as they are; it is cut to its first 400
\* characters followed by "..." exactly when it has more than 400 characters,
\* and is otherwise returned without the marker.
C10_TrimmedAndTruncated ==
    pc = "done" =>
        LET c == Core(text)
            n == IF Len(c) > SummaryLimit THEN SummaryLimit ELSE Len(c)
        IN  /\ \A i \in 1..n : excerpt[i] = IF c[i] = "\n" THEN " " ELSE c[i]
            /\ Len(c) <= SummaryLimit => Len(excerpt) = Len(c)
            /\ Len(c) > SummaryLimit =>
                   /\ Len(excerpt) = SummaryLimit + 3
                   /\ SubSeq(excerpt, SummaryLimit + 1, SummaryLimit + 3) = Ellipsis

\* a body of more than 400 characters was cut, its two newlines in a row
\* kept as two spaces
C10_Witness ==
    /\ pc = "done"
    /\ Len(Core(text)) > SummaryLimit
    /\ Len(excerpt) = SummaryLimit + 3
    /\ \E i \in 1..(SummaryLimit - 1) :
           /\ Core(text)[i] = "\n" /\ Core(text)[i + 1] = "\n"
           /\ excerpt[i] = " " /\ excerpt[i + 1] = " "

-----------------------------------------------------------------------------
(* json.loads and ast.literal_eval on header texts.                         *)
(* The texts are over the atoms { } : , = space tab, the two quote         *)
(* characters, the digits 1-9 and atoms standing for words.  On these the  *)
(* two grammars are                                                        *)
(*   JSON:   value  ::= string | number | { } | { member (, member)* }     *)
(*           member ::= string : value                                     *)
(*           string ::= double-quoted, no control character inside         *)
(*   Python: expr   ::= string+ | number | { } | { kv (, kv)* [,] }        *)
(*                    | { expr (, expr)* [,] }                             *)
(*           top    ::= expr | expr , | expr (, expr)+ [,]                 *)
(*           string ::= single- or double-quoted, or triple-quoted         *)
(* A word outside a string is a Python name or an error, never a literal.  *)

Digits == {"1", "2", "3", "4", "5", "6", "7", "8", "9"}

JsonWs == {" ", "\t", "\n", "\r"}

PyWs == {" ", "\t", "\f"}

\* characters a JSON string may not hold unescaped
ControlChars == {"\t", "\n", "\r"}

\* values: t is "str", "num", "dict", "set" or "tuple"; a dict keeps its
\* key/value pairs in source order
Val(t, s, items) == [t |-> t, s |-> s, items |-> items]

NoVal == Val("none", <<>>, <<>>)

Fail == [ok |-> FALSE, v |-> NoVal, rest |-> <<>>]

Ok(v, rest) == [ok |-> TRUE, v |-> v, rest |-> rest]

\* the leading run of digits
DigitRun(s) == SubSeq(s, 1, Len(s) - Len(LStripSet(s, Digits)))

JString(s) ==
    LET t == Tail(s)
    IN  IF ~Contains(t, "\"") THEN Fail
        ELSE LET i == IndexOf(t, "\"")
                 body == SubSeq(t, 1, i - 1)
             IN  IF \E j \in 1..Len(body) : body[j] \in ControlChars THEN Fail
                 ELSE Ok(Val("str", body, <<>>), SubSeq(t, i + 1, Len(t)))

RECURSIVE JValue(_)
RECURSIVE JMembers(_, _)

JValue(s0) ==
    LET s == LStripSet(s0, JsonWs)
    IN  IF s = <<>> THEN Fail
        ELSE IF Head(s) = "\"" THEN JString(s)
        ELSE IF Head(s) \in Digits
        THEN Ok(Val("num", DigitRun(s), <<>>), LStripSet(s, Digits))
        ELSE IF Head(s) = "{"
        THEN LET s1 == LStripSet(Tail(s), JsonWs)
             IN  IF s1 # <<>> /\ Head(s1) = "}"
                 THEN Ok(Val("dict", <<>>, <<>>), Tail(s1))
                 ELSE JMembers(s1, <<>>)
        ELSE Fail

\* s stands at a member's key; acc holds the members read so far
JMembers(s, acc) ==
    IF s = <<>> \/ Head(s) # "\"" THEN Fail
    ELSE LET k == JString(s)
             s1 == LStripSet(k.rest, JsonWs)
         IN  IF ~k.ok \/ s1 = <<>> \/ Head(s1) # ":" THEN Fail
             ELSE LET v == JValue(Tail(s1))
                      s2 == LStripSet(v.rest, JsonWs)
                      all == Append(acc, <<k.v, v.v>>)
                  IN  IF ~v.ok \/ s2 = <<>> THEN Fail
                      ELSE IF Head(s2) = "}"
                      THEN Ok(Val("dict", <<>>, all), Tail(s2))
                      ELSE IF Head(s2) = ","
                      THEN JMembers(LStripSet(Tail(s2), JsonWs), all)
                      ELSE Fail

\* json.loads(raw): ok is FALSE for JSONDecodeError
JsonLoads(r) ==
    LET v == JValue(r)
    IN  IF v.ok /\ LStripSet(v.rest, JsonWs) = <<>> THEN v ELSE Fail

Quotes == {"\"", "'"}

\* a Python string literal starting at s, whose head is the quote q
PyString(s) ==
    LET q == Head(s)
        triple == Len(s) >= 3 /\ s[2] = q /\ s[3] = q
    IN  IF triple
        THEN LET t == SubSeq(s, 4, Len(s))
                 ends == { i \in 1..(Len(t) - 2) :
                             t[i] = q /\ t[i + 1] = q /\ t[i + 2] = q }
             IN  IF ends = {} THEN Fail
                 ELSE LET i == CHOOSE x \in ends : \A y \in ends : x <= y
                      IN  Ok(Val("str", SubSeq(t, 1, i - 1), <<>>),
                             SubSeq(t, i + 3, Len(t)))
        ELSE LET t == Tail(s)
             IN  IF ~Contains(t, q) THEN Fail
                 ELSE LET i == IndexOf(t, q)
                      IN  Ok(Val("str", SubSeq(t, 1, i - 1), <<>>),
                             SubSeq(t, i + 1, Len(t)))

\* adjacent string literals are concatenated
RECURSIVE PyStrings(_)
PyStrings(s) ==
    LET a == PyString(s)
        s1 == LStripSet(a.rest, PyWs)
    IN  IF ~a.ok THEN Fail
        ELSE IF s1 # <<>> /\ Head(s1) \in Quotes
        THEN LET b == PyStrings(s1)
             IN  IF ~b.ok THEN Fail
                 ELSE Ok(Val("str", a.v.s \o b.v.s, <<>>), b.rest)
        ELSE a

\* dict and set are unhashable: TypeError as a dict key or a set element
Hashable(v) == v.t \in {"str", "num"}

RECURSIVE PyExpr(_)
RECURSIVE PyDictRest(_, _)
RECURSIVE PySetRest(_, _)

PyExpr(s0) ==
    LET s == LStripSet(s0, PyWs)
    IN  IF s = <<>> THEN Fail
        ELSE IF Head(s) \in Quotes THEN PyStrings(s)
        ELSE IF Head(s) \in Digits
        THEN Ok(Val("num", DigitRun(s), <<>>), LStripSet(s, Digits))
        ELSE IF Head(s) = "{"
        THEN LET s1 == LStripSet(Tail(s), PyWs)
             IN  IF s1 # <<>> /\ Head(s1) = "}"
                 THEN Ok(Val("dict", <<>>, <<>>), Tail(s1))
                 ELSE LET e == PyExpr(s1)
                          s2 == LStripSet(e.rest, PyWs)
                      IN  IF ~e.ok \/ s2 = <<>> THEN Fail
                          ELSE IF Head(s2) = ":"
                          THEN LET v == PyExpr(Tail(s2))
                               IN  IF ~v.ok THEN Fail
                                   ELSE PyDictRest(v.rest, <<<<e.v, v.v>>>>)
                          ELSE PySetRest(s2, <<e.v>>)
        ELSE Fail

\* s stands after a key: value pair of a dict display
PyDictRest(s0, acc) ==
    LET s == LStripSet(s0, PyWs)
        done == IF \A i \in 1..Len(acc) : Hashable(acc[i][1])
                THEN Val("dict", <<>>, acc) ELSE NoVal
    IN  IF s = <<>> THEN Fail
        ELSE IF Head(s) = "}" THEN [ok |-> done # NoVal, v |-> done, rest |-> Tail(s)]
        ELSE IF Head(s) # "," THEN Fail
        ELSE LET s1 == LStripSet(Tail(s), PyWs)
             IN  IF s1 # <<>> /\ Head(s1) = "}"
                 THEN [ok |-> done # NoVal, v |-> done, rest |-> Tail(s1)]
                 ELSE LET k == PyExpr(s1)
                          s2 == LStripSet(k.rest, PyWs)
                      IN  IF ~k.ok \/ s2 = <<>> \/ Head(s2) # ":" THEN Fail
                          ELSE LET v == PyExpr(Tail(s2))
                               IN  IF ~v.ok THEN Fail
                                   ELSE PyDictRest(v.rest, Append(acc, <<k.v, v.v>>))

\* s stands after an element of a set display
PySetRest(s0, acc) ==
    LET s == LStripSet(s0, PyWs)
        done == IF \A i \in 1..Len(acc) : Hashable(acc[i])
                THEN Val("set", <<>>, <<>>) ELSE NoVal
    IN  IF s = <<>> THEN Fail
        ELSE IF Head(s) = "}" THEN [ok |-> done # NoVal, v |-> done, rest |-> Tail(s)]
        ELSE IF Head(s) # "," THEN Fail
        ELSE LET s1 == LStripSet(Tail(s), PyWs)
             IN  IF s1 # <<>> /\ Head(s1) = "}"
                 THEN [ok |-> done # NoVal, v |-> done, rest |-> Tail(s1)]
                 ELSE LET e == PyExpr(s1)
                      IN  IF ~e.ok THEN Fail
                          ELSE PySetRest(e.rest, Append(acc, e.v))

\* s stands after an element of a top-level tuple
RECURSIVE PyTupleRest(_)
PyTupleRest(s0) ==
    LET s == LStripSet(s0, PyWs)
    IN  IF s = <<>> THEN Ok(Val("tuple", <<>>, <<>>), <<>>)
        ELSE IF Head(s) # "," THEN Fail
        ELSE LET s1 == LStripSet(Tail(s), PyWs)
             IN  IF s1 = <<>> THEN Ok(Val("tuple", <<>>, <<>>), <<>>)
                 ELSE LET e == PyExpr(s1)
                      IN  IF ~e.ok THEN Fail ELSE PyTupleRest(e.rest)

\* ast.literal_eval(raw): ok is FALSE when it raises
LiteralEval(r) ==
    LET e == PyExpr(r)
        s == LStripSet(e.rest, PyWs)
    IN  IF ~e.ok THEN Fail
        ELSE IF s = <<>> THEN Ok(e.v, <<>>)
        ELSE IF Head(s) = "," THEN PyTupleRest(s)
        ELSE Fail

-----------------------------------------------------------------------------
(* parse_headers *)

Str(s) == Val("str", s, <<>>)

\* the pairs a dict built from `items` holds: of two pairs with equal keys
\* the later one stays
Effective(items) ==
    { i \in 1..Len(items) :
        \A j \in (i + 1)..Len(items) : items[j][1] # items[i][1] }

\* isinstance(data, dict) and all(isinstance(k, str) and isinstance(v, str) ...)
IsStrDict(v) ==
    /\ v.t = "dict"
    /\ \A i \in Effective(v.items) :
           v.items[i][1].t = "str" /\ v.items[i][2].t = "str"

\* dict(data), for a dict of strings
ToDict(items) ==
    [k \in { items[i][1].s : i \in 1..Len(items) } |->
        LET i == CHOOSE x \in Effective(items) : items[x][1].s = k
        IN  items[i][2].s]

\* what parse_headers did: the exception it raised ("" if it returned), the
\* strategy the candidate came from, the candidate, and the returned mapping
Outcome(r, via, cand, val) == [raised |-> r, via |-> via, cand |-> cand, value |-> val]

Raise(via, cand) == Outcome("ValueError", via, cand, EmptyDict)

\* the final check left out for a candidate of the literal evaluator
CheckedUnlessLiteral(via, cand) ==
    IF via = "literal" \/ IsStrDict(cand)
    THEN Outcome("", via, cand, IF cand.t = "dict" THEN ToDict(cand.items) ELSE EmptyDict)
    ELSE Raise(via, cand)

\* lines 61-63: the check every candidate goes through
Checked(via, cand) ==
    IF IsStrDict(cand) THEN Outcome("", via, cand, ToDict(cand.items))
    ELSE Raise(via, cand)

\* an item without a separator skipped instead of raising
RECURSIVE BracePartsLenient(_, _)
BracePartsLenient(parts, acc) ==
    IF parts = <<>> THEN [ok |-> TRUE, items |-> acc]
    ELSE LET part == Strip(Head(parts))
         IN  IF part = <<>> THEN BracePartsLenient(Tail(parts), acc)
             ELSE IF Contains(part, ":")
             THEN LET kv == SplitFirst(part, ":")
                  IN  BracePartsLenient(Tail(parts),
                          Append(acc, <<Str(Strip(kv[1])), Str(Strip(kv[2]))>>))
             ELSE IF Contains(part, "=")
             THEN LET kv == SplitFirst(part, "=")
                  IN  BracePartsLenient(Tail(parts),
                          Append(acc, <<Str(Strip(kv[1])), Str(Strip(kv[2]))>>))
             ELSE BracePartsLenient(Tail(parts), acc)

\* lines 39-49: the loop over the comma-separated items of a brace list
RECURSIVE BraceParts(_, _)
BraceParts(parts, acc) ==
    IF parts = <<>> THEN [ok |-> TRUE, items |-> acc]
    ELSE LET part == Strip(Head(parts))
         IN  IF part = <<>> THEN BraceParts(Tail(parts), acc)
             ELSE IF Contains(part, ":")
             THEN LET kv == SplitFirst(part, ":")
                  IN  BraceParts(Tail(parts),
                          Append(acc, <<Str(Strip(kv[1])), Str(Strip(kv[2]))>>))
             ELSE IF Contains(part, "=")
             THEN LET kv == SplitFirst(part, "=")
                  IN  BraceParts(Tail(parts),
                          Append(acc, <<Str(Strip(kv[1])), Str(Strip(kv[2]))>>))
             ELSE [ok |-> FALSE, items |-> acc]

\* line 34: the text is a brace list
IsBraceList(stripped) ==
    /\ stripped # <<>>
    /\ Head(stripped) = "{"
    /\ stripped[Len(stripped)] = "}"
    /\ ~Contains(stripped, "\"")
    /\ ~Contains(stripped, "'")

parse_headers(r) ==
    IF ~Truthy(r) THEN Outcome("", "none", Val("dict", <<>>, <<>>), EmptyDict)
    ELSE LET j == JsonLoads(r)
             stripped == Strip(r)
         IN  IF j.ok THEN Checked("json", j.v)
             ELSE IF IsBraceList(stripped)
             THEN LET inner == Strip(SubSeq(stripped, 2, Len(stripped) - 1))
                      parsed == BraceParts(Split(inner, ","), <<>>)
                  IN  IF inner = <<>>
                      THEN Outcome("", "brace", Val("dict", <<>>, <<>>), EmptyDict)
                      ELSE IF ~parsed.ok THEN Raise("brace", NoVal)
                      ELSE Checked("brace", Val("dict", <<>>, parsed.items))
             ELSE LET l == LiteralEval(r)
                  IN  IF ~l.ok THEN Raise("literal", NoVal)
                      ELSE Checked("literal", l.v)

-----------------------------------------------------------------------------
(* main, lines 99-110: the bulk header specification and the --header flags *)

\* the first value given for a key kept, later ones dropped
RECURSIVE MergeHeaderFlagsFirstWins(_, _)
MergeHeaderFlagsFirstWins(extra, items) ==
    IF items = <<>> THEN [raised |-> "", value |-> extra]
    ELSE LET item == Strip(Or(Head(items), <<>>))
         IN  IF item = <<>> THEN MergeHeaderFlagsFirstWins(extra, Tail(items))
             ELSE IF Contains(item, ":")
             THEN LET kv == SplitFirst(item, ":")
                  IN  MergeHeaderFlagsFirstWins(
                          SetDefault(extra, Strip(kv[1]), Strip(kv[2])), Tail(items))
             ELSE IF Contains(item, "=")
             THEN LET kv == SplitFirst(item, "=")
                  IN  MergeHeaderFlagsFirstWins(
                          SetDefault(extra, Strip(kv[1]), Strip(kv[2])), Tail(items))
             ELSE [raised |-> "ValueError", value |-> extra]

\* lines 100-110: the loop over args.header
RECURSIVE MergeHeaderFlags(_, _)
MergeHeaderFlags(extra, items) ==
    IF items = <<>> THEN [raised |-> "", value |-> extra]
    ELSE LET item == Strip(Or(Head(items), <<>>))
         IN  IF item = <<>> THEN MergeHeaderFlags(extra, Tail(items))
             ELSE IF Contains(item, ":")
             THEN LET kv == SplitFirst(item, ":")
                  IN  MergeHeaderFlags(
                          Put(extra, Strip(kv[1]), Strip(kv[2])), Tail(items))
             ELSE IF Contains(item, "=")
             THEN LET kv == SplitFirst(item, "=")
                  IN  MergeHeaderFlags(
                          Put(extra, Strip(kv[1]), Strip(kv[2])), Tail(items))
             ELSE [raised |-> "ValueError", value |-> extra]

\* line 99: extra_headers = parse_headers(...)
ParseHeaders ==
    /\ pc = "headers"
    /\ data' = parse_headers(raw)
    /\ IF data'.raised # ""
       THEN /\ raised' = data'.raised
            /\ pc' = "done"
            /\ UNCHANGED extra_headers
       ELSE /\ extra_headers' = data'.value
            /\ pc' = "flags"
            /\ UNCHANGED raised
    /\ UNCHANGED <<env, env0, lines, lineno, raw, header, text, excerpt,
                   args, cfg, headers, out, ret>>

\* lines 100-110
MergeFlags ==
    /\ pc = "flags"
    /\ LET m == MergeHeaderFlags(extra_headers, header)
       IN  IF m.raised # ""
           THEN /\ raised' = m.raised
                /\ pc' = "done"
                /\ UNCHANGED extra_headers
           ELSE /\ extra_headers' = m.value
                /\ pc' = "check"
                /\ UNCHANGED raised
    /\ UNCHANGED <<env, env0, lines, lineno, raw, header, data, text, excerpt,
                   args, cfg, headers, out, ret>>

HeadersNext == ParseHeaders \/ MergeFlags

-----------------------------------------------------------------------------
(* Header inputs *)

\* longest header text tried exhaustively, in atoms
MaxRawLen == 4

RawAtoms == {"{", "}", ":", ",", "\"", "'", "1", "a"}

\* keys and values of the one- and two-member dict texts tried
Scalars ==
    { <<"'", "X", "'">>, <<"\"", "X", "\"">>, <<"\"", "Y", "\"">>, <<"1">>,
      <<"{", "}">>, <<"X">> }

Member(k, v) == k \o <<":">> \o v

DictTexts ==
    { <<"{">> \o Member(k, v) \o <<"}">> : k \in Scalars, v \in Scalars }
    \cup { <<"{">> \o Member(k, v) \o <<",">> \o Member(<<"\"", "X", "\"">>, w) \o <<"}">> :
             k \in Scalars, v \in Scalars, w \in Scalars }

\* every text of up to MaxRawLen atoms, dict texts in JSON and in Python
\* syntax, and the texts of the documentation
HeaderTexts ==
    UNION { [1..n -> RawAtoms] : n \in 0..MaxRawLen }
    \cup DictTexts
    \cup { None,
           <<"{", "User-Agent", ":", "Mozilla/5.0", ",",
                  "Accept", ":", "application/json", "}">>,
           <<"{", "\f", "}">>,
           <<"not", " ", "json", " ", "at", " ", "all">> }

ParseInit ==
    /\ NoLoader /\ NoSummary /\ NoMain
    /\ raised = ""
    /\ raw \in HeaderTexts
    /\ header = <<>>
    /\ data = <<>>
    /\ extra_headers = EmptyDict
    /\ pc = "headers"

SpecParse == ParseInit /\ [][HeadersNext]_vars

\* most items of a brace list, most --header flags
MaxParts == 3
MaxFlags == 3

BraceItems ==
    { <<"A", ":", "1">>, <<" ", "B", " ", "=", " ", "2", " ">>, <<"A", "=", "1", ":", "3">>,
      <<"C">>, <<>>, <<" ">> }

RECURSIVE Join(_, _)
Join(parts, c) ==
    IF parts = <<>> THEN <<>>
    ELSE IF Len(parts) = 1 THEN parts[1]
    ELSE parts[1] \o <<c>> \o Join(Tail(parts), c)

\* bulk specifications: none, JSON, and brace lists of up to MaxParts items
BulkSpecs ==
    { None, <<>> }
    \cup { <<"{">> \o Join(p, ",") \o <<"}">> :
             p \in UNION { [1..n -> BraceItems] : n \in 1..MaxParts } }

FlagItems ==
    { <<"A", ":", "1">>, <<"B", "=", "2">>, <<"A", ":", "3">>,
      <<" ", "A", "=", "1", " ", ":", " ", "4", " ">>, <<"Z", "=">>,
      <<"C">>, <<" ">>, <<>> }

FlagLists == UNION { [1..n -> FlagItems] : n \in 0..MaxFlags }

FewBulkSpecs ==
    { None,
      <<"{", "\"", "A", "\"", ":", "\"", "5", "\"", ",",
             "\"", "Z", "\"", ":", "\"", "9", "\"", "}">>,
      <<"{", "A", ":", "5", ",", " ", ",", "Z", "=", "9", "}">> }

FewFlagLists == { <<>>, <<<<"A", ":", "1">>>>, <<<<"C">>>> }

\* every bulk specification with a few flag lists, every flag list with a
\* few bulk specifications
FlagsInit ==
    /\ NoLoader /\ NoSummary /\ NoMain
    /\ raised = ""
    /\ \/ raw \in BulkSpecs /\ header \in FewFlagLists
       \/ raw \in FewBulkSpecs /\ header \in FlagLists
    /\ data = <<>>
    /\ extra_headers = EmptyDict
    /\ pc = "headers"

SpecFlags == FlagsInit /\ [][HeadersNext]_vars

-----------------------------------------------------------------------------
(* Properties of the header parser and of the --header merge *)

\* the Python dict a sequence of key/value pairs builds, keys and values
\* kept with their types
RECURSIVE AsDict(_)
AsDict(items) ==
    IF items = <<>> THEN EmptyDict
    ELSE Put(AsDict(SubSeq(items, 1, Len(items) - 1)),
             items[Len(items)][1], items[Len(items)][2])

\* a mapping whose keys and values are all strings
StringMapping(v) ==
    /\ v.t = "dict"
    /\ \A k \in DOMAIN AsDict(v.items) : k.t = "str" /\ AsDict(v.items)[k].t = "str"

\* C8: parse_headers either raises or returns a mapping of strings to
\* strings, whichever strategy gave the candidate: a returned value is the
\* candidate itself and the candidate is a mapping of strings; a candidate
\* that is no such mapping ends in an error, and a text json.loads accepts is
\* never handed to the brace-list or literal strategy.
C8_OnlyStringMappings ==
    pc # "headers" =>
        /\ data.raised \in {"", "ValueError"}
        /\ data.raised = "" =>
               /\ StringMapping(data.cand)
               /\ DOMAIN data.value = { k.s : k \in DOMAIN AsDict(data.cand.items) }
               /\ \A k \in DOMAIN AsDict(data.cand.items) :
                      data.value[k.s] = AsDict(data.cand.items)[k].s
        /\ ~StringMapping(data.cand) => data.raised = "ValueError"
        /\ (Truthy(raw) /\ JsonLoads(raw).ok) =>
               data.via = "json" /\ data.cand = JsonLoads(raw).v
        /\ data.via = "literal" /\ LiteralEval(raw).ok => data.cand = LiteralEval(raw).v

\* the literal evaluator gave a dict with a value that is no string, and the
\* parse ended in an error
C8_Witness ==
    /\ pc = "done"
    /\ data.via = "literal" /\ data.cand.t = "dict" /\ data.cand.items # <<>>
    /\ ~StringMapping(data.cand)
    /\ raised = "ValueError"

NoSeparator(item) == ~Contains(item, ":") /\ ~Contains(item, "=")

Blank(item) == \A i \in 1..Len(item) : item[i] \in Whitespace

\* the comma-separated items of the bulk specification when it is a brace
\* list: wrapped in braces, free of quotes, not valid JSON
BraceListItems(r) ==
    IF /\ Truthy(r) /\ ~JsonLoads(r).ok /\ IsBraceList(Strip(r))
    THEN Split(Strip(SubSeq(Strip(r), 2, Len(Strip(r)) - 1)), ",")
    ELSE <<>>

\* C7 as stated: an item with neither separator is always fatal, in a brace
\* list and among the --header values alike: the parse never gets past one.
C7_NoSeparatorAlwaysFatal ==
    /\ pc \in {"flags", "check"} =>
           \A i \in 1..Len(BraceListItems(raw)) : ~NoSeparator(BraceListItems(raw)[i])
    /\ pc = "check" => \A i \in 1..Len(header) : ~NoSeparator(header[i])

\* C7 amended: an item that is not blank (not empty after trimming
\* whitespace) and has neither ':' nor '=' is always fatal, in a brace list and
\* among the --header values alike: the run ends in ValueError and no header
\* mapping comes out of it.  An empty or whitespace-only item is skipped.
C7_NonBlankNoSeparatorFatal ==
    LET badPart == \E i \in 1..Len(BraceListItems(raw)) :
                       /\ ~Blank(BraceListItems(raw)[i])
                       /\ NoSeparator(BraceListItems(raw)[i])
        badFlag == \E i \in 1..Len(header) :
                       ~Blank(header[i]) /\ NoSeparator(header[i])
    IN  /\ badPart => pc \in {"headers", "done"}
        /\ badPart /\ pc = "done" => raised = "ValueError" /\ data.raised = "ValueError"
        /\ badFlag => pc \in {"headers", "flags", "done"}
        /\ badFlag /\ pc = "done" => raised = "ValueError"

\* a brace list with a blank item was parsed, the blank item skipped, and a
\* --header value without a separator then ended the run
C7_Witness ==
    /\ pc = "done" /\ raised = "ValueError" /\ data.raised = ""
    /\ \E i \in 1..Len(BraceListItems(raw)) : Blank(BraceListItems(raw)[i])
    /\ DOMAIN data.value = {<<"A">>, <<"Z">>}
    /\ \E i \in 1..Len(header) : header[i] = <<"C">>

\* the key and the value of a --header item, the colon tried first
ItemSep(item) == IF Contains(item, ":") THEN ":" ELSE "="

ItemKey(item) == Strip(SplitFirst(item, ItemSep(item))[1])

ItemValue(item) == Strip(SplitFirst(item, ItemSep(item))[2])

\* the --header items naming key k
Naming(k) ==
    { i \in 1..Len(header) :
        ~Blank(header[i]) /\ ~NoSeparator(header[i]) /\ ItemKey(header[i]) = k }

Last(ix) == CHOOSE i \in ix : \A j \in ix : j <= i

\* C5: once the --header items are merged, every key has the value of the
\* last --header item naming it, or the bulk specification's value if no item
\* names it, and a key named by neither is absent.
C5_LastFlagWins ==
    pc = "check" =>
        /\ \A k \in DOMAIN extra_headers :
               Naming(k) # {} \/ k \in DOMAIN data.value
        /\ \A k \in DOMAIN data.value : k \in DOMAIN extra_headers
        /\ \A i \in 1..Len(header) :
               (~Blank(header[i]) /\ ~NoSeparator(header[i])) =>
                   ItemKey(header[i]) \in DOMAIN extra_headers
        /\ \A k \in DOMAIN extra_headers :
               extra_headers[k] =
                   IF Naming(k) # {} THEN ItemValue(header[Last(Naming(k))])
                   ELSE data.value[k]

\* --header A:1 --header B=2 --header A:3 gave {A: 3, B: 2}
C5_Witness ==
    /\ pc = "check"
    /\ header = << <<"A", ":", "1">>, <<"B", "=", "2">>, <<"A", ":", "3">> >>
    /\ data.value = EmptyDict
    /\ DOMAIN extra_headers = {<<"A">>, <<"B">>}
    /\ extra_headers[<<"A">>] = <<"3">>
    /\ extra_headers[<<"B">>] = <<"2">>

-----------------------------------------------------------------------------
(* main *)

\* load_env_file(path): a missing file is None
load_env_file(e, file) ==
    IF file = None THEN [env |-> e, raised |-> ""] ELSE LoadEnvFile(e, file)

\* what main printed or requested: ev is "print", "GET" or "POST"
\* and path is the endpoint it is about, "" if none
Printed(what, path, arg) == [ev |-> "print", what |-> what, path |-> path, arg |-> arg]

Request(method, path, url) == [ev |-> method, what |-> "request", path |-> path, arg |-> url]

IsRequest(e) == e.ev \in {"GET", "POST"}

Authorization == <<"Authorization">>
Accept == <<"Accept">>
UserAgent == <<"User-Agent">>

Bearer(key) == <<"Bearer", " ">> \o key

\* the token only filled in when the user gave no Authorization header
FinalHeadersKeepUser(extra, key) ==
    SetDefault(
        SetDefault(SetDefault(extra, Accept, <<"application/json">>),
                   UserAgent, <<"Mozilla/5.0">>),
        Authorization, Bearer(key))

\* lines 119-122
FinalHeaders(extra, key) ==
    Put(SetDefault(SetDefault(extra, Accept, <<"application/json">>),
                   UserAgent, <<"Mozilla/5.0">>),
        Authorization, Bearer(key))

\* str.lower() on the atoms of content types and bodies
Lower(s) ==
    [i \in 1..Len(s) |->
        CASE s[i] = "Text/HTML" -> "text/html"
          [] s[i] = "Request" -> "request"
          [] s[i] = "Blocked" -> "blocked"
          [] OTHER -> s[i]]

\* sub in s, for sequences of atoms
ContainsSeq(s, sub) ==
    \E i \in 0..(Len(s) - Len(sub)) : SubSeq(s, i + 1, i + Len(sub)) = sub

\* line 153
LooksBlocked(ct, body_head) ==
    /\ ContainsSeq(Lower(ct), <<"text/html">>)
    /\ \/ ContainsSeq(Lower(body_head), <<"blocked">>)
       \/ ContainsSeq(Lower(body_head), <<"request", " ", "was", " ", "blocked">>)

\* what the server can answer
Responses ==
    { [status |-> 200, ct |-> <<"application/json">>, body |-> <<"{", "}", "\n">>],
      [status |-> 401, ct |-> <<>>, body |-> <<"blocked">>],
      [status |-> 403, ct |-> <<"Text/HTML", ";", " ", "charset=utf-8">>,
       body |-> <<"Request", " ", "was", " ", "blocked">>] }

\* exceptions of the transport
TransportErrors == { "ConnectError", "ReadTimeout" }

\* lines 132-134 and 148-154: the prints after a response
Report(path, r) ==
    << Printed("status", path, <<r.status>>),
       Printed("content-type", path, r.ct),
       Printed("body(head)", path, summarize_body(r.body, SummaryLimit)) >>

-----------------------------------------------------------------------------
(* Inputs of main *)

MainEnvs ==
    { EmptyDict,
      API_KEY :> <<"live">>,
      API_KEY :> <<>>,
      MODEL_BASE_URL :> <<"http://e", "/">>,
      (API_KEY :> <<"live">>) @@ (MODEL_BASE_URL :> <<"http://e", "/">>),
      (API_KEY :> <<"live">>) @@ (MODEL_BASE_URL :> <<"http://e">>)
          @@ (MODEL_NAME :> <<"m0">>)
          @@ (MODEL_DEFAULT_HEADERS :> <<"{", "X", ":", "1", "}">>),
      (API_KEY :> <<"live">>) @@ (MODEL_BASE_URL :> <<"http://e">>)
          @@ (MODEL_DEFAULT_HEADERS :> <<"oops">>) }

MainFiles ==
    { None,
      <<>>,
      << <<"API_KEY", "=", "secret">> >>,
      << <<"MODEL_BASE_URL", "=", "http://f">>,
         <<"API_KEY", " ", "=", " ", "\"", "secret", "\"">>,
         <<"MODEL_NAME", "=", "qwen">> >>,
      << <<"=", "secret">> >> }

MainArgs ==
    [ base_url : { None, <<"/">>, <<"http://a", "/", "/">> },
      model : { None, <<"m">> },
      headers : { None, <<"{", "\"", "A", "\"", ":", "\"", "5", "\"", "}">>, <<"oops">> },
      prompt_key : BOOLEAN ]

MainFlags ==
    { <<>>,
      << <<"A", ":", "1">> >>,
      << <<"Authorization", ":", "mine">>, <<"Accept", "=", "text/plain">> >>,
      << <<"C">> >> }

\* what the user can type at the getpass prompt
TypedKeys == { <<>>, <<" ", "typed", " ">> }

MainInit ==
    /\ NoSummary
    /\ raised = ""
    /\ env0 \in MainEnvs
    /\ env = env0
    /\ lines \in MainFiles
    /\ lineno = 0
    /\ args \in MainArgs
    /\ header \in MainFlags
    /\ raw = None
    /\ data = <<>>
    /\ extra_headers = EmptyDict
    /\ cfg = <<>>
    /\ headers = EmptyDict
    /\ out = <<>>
    /\ ret = -1
    /\ pc = "main"

\* lines 90-94, and the argument of parse_headers in line 99
Start ==
    /\ pc = "main"
    /\ LET l == load_env_file(env, lines)
           e == l.env
       IN  /\ env' = e
           /\ IF l.raised # ""
              THEN /\ raised' = l.raised
                   /\ pc' = "done"
                   /\ UNCHANGED <<cfg, raw>>
              ELSE /\ cfg' = [ base_url |->
                                   RStripSet(Or(args.base_url, GetEnv(e, MODEL_BASE_URL)),
                                             {"/"}),
                               model |-> Or(args.model, GetEnv(e, MODEL_NAME)),
                               api_key |-> GetEnv(e, API_KEY) ]
                   /\ raw' = Or(args.headers,
                                IF MODEL_DEFAULT_HEADERS \in DOMAIN e
                                THEN e[MODEL_DEFAULT_HEADERS] ELSE None)
                   /\ pc' = IF ~Truthy(cfg'.api_key) /\ args.prompt_key
                            THEN "getpass" ELSE "headers"
                   /\ UNCHANGED raised
    /\ UNCHANGED <<env0, lines, lineno, header, data, extra_headers, text, excerpt,
                   args, headers, out, ret>>

\* lines 96-97: the key typed at the prompt, or the prompt's input closed
PromptKey ==
    /\ pc = "getpass"
    /\ \/ \E typed \in TypedKeys :
              /\ cfg' = [cfg EXCEPT !.api_key = Strip(typed)]
              /\ pc' = "headers"
              /\ UNCHANGED raised
       \/ /\ raised' = "EOFError"
          /\ pc' = "done"
          /\ UNCHANGED cfg
    /\ UNCHANGED <<env, env0, lines, lineno, raw, header, data, extra_headers,
                   text, excerpt, args, headers, out, ret>>

\* the api_key test left out
CheckConfigNoKey ==
    /\ pc = "check"
    /\ IF ~Truthy(cfg.base_url)
       THEN /\ out' = Append(out, Printed("missing base_url", "", <<>>))
            /\ ret' = 2
            /\ pc' = "done"
       ELSE /\ pc' = "build"
            /\ UNCHANGED <<out, ret>>
    /\ UNCHANGED <<env, env0, lines, lineno, raised, raw, header, data,
                   extra_headers, text, excerpt, args, cfg, headers>>

\* the missing configuration reported, and the run carried on
CheckConfigNoReturn ==
    /\ pc = "check"
    /\ IF ~Truthy(cfg.base_url)
       THEN out' = Append(out, Printed("missing base_url", "", <<>>))
       ELSE IF ~Truthy(cfg.api_key)
       THEN out' = Append(out, Printed("missing API_KEY", "", <<>>))
       ELSE UNCHANGED out
    /\ pc' = "build"
    /\ UNCHANGED <<env, env0, lines, lineno, raised, raw, header, data,
                   extra_headers, text, excerpt, args, cfg, headers, ret>>

\* lines 112-117
CheckConfig ==
    /\ pc = "check"
    /\ IF ~Truthy(cfg.base_url)
       THEN /\ out' = Append(out, Printed("missing base_url", "", <<>>))
            /\ ret' = 2
            /\ pc' = "done"
       ELSE IF ~Truthy(cfg.api_key)
       THEN /\ out' = Append(out, Printed("missing API_KEY", "", <<>>))
            /\ ret' = 2
            /\ pc' = "done"
       ELSE /\ pc' = "build"
            /\ UNCHANGED <<out, ret>>
    /\ UNCHANGED <<env, env0, lines, lineno, raised, raw, header, data,
                   extra_headers, text, excerpt, args, cfg, headers>>

\* lines 119-126
BuildHeaders ==
    /\ pc = "build"
    /\ headers' = FinalHeaders(extra_headers, cfg.api_key)
    /\ out' = out \o
           << Printed("base_url", "", cfg.base_url),
              Printed("model", "", Or(cfg.model, <<"(unspecified)">>)),
              Printed("extra_headers", "",
                      IF extra_headers # EmptyDict THEN <<"on">> ELSE <<"off">>) >>
    /\ pc' = "get"
    /\ UNCHANGED <<env, env0, lines, lineno, raised, raw, header, data,
                   extra_headers, text, excerpt, args, cfg, ret>>

\* a transport failure of the GET left uncaught
GetModelsUncaught ==
    /\ pc = "get"
    /\ \/ \E r \in Responses :
              /\ out' = out \o <<Request("GET", "/models", cfg.base_url \o <<"/models">>)>>
                            \o Report("/models", r)
              /\ pc' = "chat"
              /\ UNCHANGED raised
       \/ \E e \in TransportErrors :
              /\ out' = out \o <<Request("GET", "/models", cfg.base_url \o <<"/models">>)>>
              /\ raised' = e
              /\ pc' = "done"
    /\ UNCHANGED <<env, env0, lines, lineno, raw, header, data,
                   extra_headers, text, excerpt, args, cfg, headers, ret>>

\* lines 128-136
GetModels ==
    /\ pc = "get"
    /\ \/ \E r \in Responses :
              out' = out \o <<Request("GET", "/models", cfg.base_url \o <<"/models">>)>>
                         \o Report("/models", r)
       \/ \E e \in TransportErrors :
              out' = out \o << Request("GET", "/models", cfg.base_url \o <<"/models">>),
                               Printed("error", "/models", <<e>>) >>
    /\ pc' = "chat"
    /\ UNCHANGED <<env, env0, lines, lineno, raised, raw, header, data,
                   extra_headers, text, excerpt, args, cfg, headers, ret>>

\* the POST issued whether or not a model is known
ChatCompletionsAlways ==
    /\ pc = "chat"
    /\ \/ \E r \in Responses :
              out' = out \o <<Request("POST", "/chat/completions", cfg.base_url \o <<"/chat/completions">>)>>
                         \o Report("/chat/completions", r)
       \/ \E e \in TransportErrors :
              out' = out \o << Request("POST", "/chat/completions", cfg.base_url \o <<"/chat/completions">>),
                               Printed("error", "/chat/completions", <<e>>) >>
    /\ pc' = "return"
    /\ UNCHANGED <<env, env0, lines, lineno, raised, raw, header, data,
                   extra_headers, text, excerpt, args, cfg, headers, ret>>

\* lines 138-158
ChatCompletions ==
    /\ pc = "chat"
    /\ IF Truthy(cfg.model)
       THEN \/ \E r \in Responses :
                   out' = out \o <<Request("POST", "/chat/completions", cfg.base_url \o <<"/chat/completions">>)>>
                              \o Report("/chat/completions", r)
                              \o IF LooksBlocked(r.ct, summarize_body(r.body, SummaryLimit))
                                 THEN <<Printed("looks like a WAF block", "/chat/completions", <<>>)>>
                                 ELSE <<>>
            \/ \E e \in TransportErrors :
                   out' = out \o << Request("POST", "/chat/completions", cfg.base_url \o <<"/chat/completions">>),
                                    Printed("error", "/chat/completions", <<e>>) >>
       ELSE out' = Append(out, Printed("skipped", "/chat/completions", <<>>))
    /\ pc' = "return"
    /\ UNCHANGED <<env, env0, lines, lineno, raised, raw, header, data,
                   extra_headers, text, excerpt, args, cfg, headers, ret>>

\* line 160
Return ==
    /\ pc = "return"
    /\ ret' = 0
    /\ pc' = "done"
    /\ UNCHANGED <<env, env0, lines, lineno, raised, raw, header, data,
                   extra_headers, text, excerpt, args, cfg, headers, out>>

Next ==
    \/ Start
    \/ PromptKey
    \/ ParseHeaders
    \/ MergeFlags
    \/ CheckConfig
    \/ BuildHeaders
    \/ GetModels
    \/ ChatCompletions
    \/ Return

Spec == MainInit /\ [][Next]_vars

-----------------------------------------------------------------------------
(* Properties of main *)

Requests == SelectSeq(out, IsRequest)

Has(what, path) == \E i \in 1..Len(out) : out[i].what = what /\ out[i].path = path

\* base_url, model and api_key are resolved: the env file is loaded and the
\* prompt, if any, is answered
Resolved == pc \notin {"main", "getpass"} /\ raised \notin {"OSError", "EOFError"}

\* C1: no GET /models and no POST /chat/completions is issued unless the
\* resolved base_url and api_key are both non-empty when it is issued, and a
\* run that is in, or through, its probe phase has both.
C1_NoRequestWithoutConfig ==
    /\ (Requests # <<>> \/ pc \in {"get", "chat", "return"}) =>
           cfg.base_url # <<>> /\ cfg.api_key # <<>>
    /\ \A i \in 1..Len(out) :
           IsRequest(out[i]) =>
               /\ out[i].arg = cfg.base_url \o <<out[i].path>>
               /\ Len(out[i].arg) > 1
               /\ headers[Authorization] = Bearer(cfg.api_key)

\* both requests were issued
C1_Witness ==
    /\ pc = "done" /\ ret = 0
    /\ Len(Requests) = 2
    /\ cfg.base_url # <<>> /\ cfg.api_key # <<>>

\* C2 as stated: whenever base_url, or api_key, is empty after resolution,
\* main prints the guidance, returns 2 and has issued no request, whatever
\* the header inputs are.
C2_MissingConfigExits2 ==
    (pc = "done" /\ Resolved /\ (cfg.base_url = <<>> \/ cfg.api_key = <<>>)) =>
        /\ ret = 2
        /\ Has("missing base_url", "") \/ Has("missing API_KEY", "")
        /\ Requests = <<>>

\* the header inputs raise: the bulk specification does, or a --header item
\* that is not blank has no separator
HeaderInputsRaise ==
    \/ parse_headers(raw).raised # ""
    \/ \E i \in 1..Len(header) : ~Blank(header[i]) /\ NoSeparator(header[i])

\* C2 amended: whenever base_url, or api_key, is empty after resolution and
\* the header inputs (the bulk specification and every --header item) parse,
\* main prints the guidance, for base_url if it is empty and else for
\* API_KEY, returns 2 and has issued no request.  When the header inputs do
\* not parse, main ends in their ValueError before it looks at base_url and
\* api_key: nothing is printed, nothing is returned, no request is issued.
C2_MissingConfigExits2IfHeadersParse ==
    (pc = "done" /\ Resolved /\ (cfg.base_url = <<>> \/ cfg.api_key = <<>>)) =>
        /\ Requests = <<>>
        /\ ~HeaderInputsRaise =>
               /\ ret = 2 /\ raised = ""
               /\ out = IF cfg.base_url = <<>>
                        THEN <<Printed("missing base_url", "", <<>>)>>
                        ELSE <<Printed("missing API_KEY", "", <<>>)>>
        /\ HeaderInputsRaise => ret = -1 /\ raised = "ValueError" /\ out = <<>>

\* base_url resolved to the empty string from the flag "/", the headers
\* parsed, and main returned 2
C2_Witness ==
    /\ pc = "done" /\ ret = 2
    /\ cfg.base_url = <<>> /\ args.base_url = <<"/">>
    /\ cfg.api_key # <<>>
    /\ extra_headers # EmptyDict
    /\ Requests = <<>>

\* the position in out of the request to path, 0 if there is none
RequestAt(path) ==
    IF \E i \in 1..Len(out) : IsRequest(out[i]) /\ out[i].path = path
    THEN CHOOSE i \in 1..Len(out) : IsRequest(out[i]) /\ out[i].path = path
    ELSE 0

\* C3: with a valid configuration a transport failure of either call is
\* caught and reported and changes neither the other call nor the exit code:
\* the run goes on after a failed GET, the POST follows it when a model is
\* resolved, and main returns 0 whatever the two calls did.
C3_FailuresDoNotStopTheProbe ==
    /\ pc \in {"get", "chat", "return"} => raised = "" /\ ret = -1 /\ ENABLED Next
    /\ (pc = "done" /\ Requests # <<>>) => ret = 0 /\ raised = ""
    /\ (pc = "done" /\ Resolved /\ raised = ""
          /\ cfg.base_url # <<>> /\ cfg.api_key # <<>>) => ret = 0
    /\ \A i \in 1..Len(out) :
           IsRequest(out[i]) =>
               \/ pc \in {"get", "chat"} /\ i = Len(out)
               \/ /\ i < Len(out)
                  /\ out[i + 1].ev = "print" /\ out[i + 1].path = out[i].path
                  /\ out[i + 1].what \in {"status", "error"}
    /\ (pc \in {"return", "done"} /\ Has("error", "/models") /\ Truthy(cfg.model)) =>
           RequestAt("/chat/completions") > RequestAt("/models")

\* GET /models failed, POST /chat/completions answered 200, main returned 0
C3_Witness ==
    /\ pc = "done" /\ ret = 0
    /\ Has("error", "/models")
    /\ \E i \in 1..Len(out) :
           /\ out[i].what = "status" /\ out[i].path = "/chat/completions"
           /\ out[i].arg = <<200>>

\* C6: the header mapping of the client has Authorization equal to
\* "Bearer <api_key>" whatever the user gave for it; Accept and User-Agent
\* keep the user's value when given and are application/json and Mozilla/5.0
\* otherwise; every other user key keeps its value and no other key is added.
C6_FinalHeaders ==
    pc \in {"get", "chat", "return"} \/ (pc = "done" /\ ret = 0) =>
        /\ DOMAIN headers = DOMAIN extra_headers \cup {Authorization, Accept, UserAgent}
        /\ headers[Authorization] = Bearer(cfg.api_key)
        /\ headers[Accept] = IF Accept \in DOMAIN extra_headers
                             THEN extra_headers[Accept] ELSE <<"application/json">>
        /\ headers[UserAgent] = IF UserAgent \in DOMAIN extra_headers
                                THEN extra_headers[UserAgent] ELSE <<"Mozilla/5.0">>
        /\ \A k \in DOMAIN extra_headers \ {Authorization} : headers[k] = extra_headers[k]

\* the user gave Authorization and Accept; the token replaced the first and
\* the second was kept
C6_Witness ==
    /\ pc = "get"
    /\ Authorization \in DOMAIN extra_headers
    /\ extra_headers[Authorization] = <<"mine">>
    /\ headers[Authorization] = Bearer(cfg.api_key)
    /\ headers[Accept] = <<"text/plain">>
    /\ headers[UserAgent] = <<"Mozilla/5.0">>

ConfigReport(i) ==
    /\ out[i].what = "base_url" /\ out[i + 1].what = "model"
    /\ out[i + 2].what = "extra_headers"

\* C9: a run that reaches the probe phase attempts GET /models exactly once,
\* then POST /chat/completions exactly once if the resolved model is
\* non-empty and never if it is empty, in which case the skip message is
\* printed; no request is repeated, and the configuration report is printed
\* before the first request.  A run that does not reach it requests nothing.
C9_OneGetThenAtMostOnePost ==
    LET reqs == [i \in 1..Len(Requests) |-> <<Requests[i].ev, Requests[i].path>>]
    IN  /\ pc \in {"main", "getpass", "headers", "flags", "check", "build", "get"} =>
               reqs = <<>>
        /\ (pc = "done" /\ ret # 0) => reqs = <<>>
        /\ pc = "chat" => reqs = << <<"GET", "/models">> >>
        /\ (pc = "return" \/ (pc = "done" /\ ret = 0)) =>
               /\ reqs = IF cfg.model # <<>>
                         THEN << <<"GET", "/models">>, <<"POST", "/chat/completions">> >>
                         ELSE << <<"GET", "/models">> >>
               /\ cfg.model = <<>> <=> Has("skipped", "/chat/completions")
        /\ reqs # <<>> => Len(out) >= 4 /\ ConfigReport(1) /\ IsRequest(out[4])
        /\ pc \in {"get", "chat", "return"} => ENABLED Next

\* no model was resolved: one GET, the skip message, no POST
C9_Witness ==
    /\ pc = "done" /\ ret = 0
    /\ cfg.model = <<>>
    /\ Len(Requests) = 1 /\ Requests[1].ev = "GET"
    /\ out[Len(out)] = Printed("skipped", "/chat/completions", <<>>)

====
